---- MODULE Spec2Model ----
(***************************************************************************)
(* Model of scripts/load_test.py: the driver run_load_test, its worker     *)
(* threads, the request executor send_metric and the latency statistics.   *)
(*                                                                         *)
(* Time is the wall clock time.time(), counted in whole seconds.  The      *)
(* value response.elapsed is a timedelta, an integer number of             *)
(* microseconds; a latency in seconds is kept as that integer (seconds in  *)
(* fixed point, 10^-6), so latency * 1000 is (latency * 1000) \div 10^6    *)
(* milliseconds.                                                           *)
(*                                                                         *)
(* The statement  x += 1  on a nonlocal variable is a read, an add and a   *)
(* write; the interpreter may switch threads between the read and the      *)
(* write.  Each increment is therefore two steps of the worker.            *)
(***************************************************************************)
EXTENDS Integers, Sequences, FiniteSets, TLC

VARIABLES
    RPS_TARGET, DURATION, THREADS,      \* load_test.py:18-20
    now,                                \* time.time()
    start_time, end_time,               \* load_test.py:64-65
    request_interval,                   \* load_test.py:73
    total_requests, successful_requests, failed_requests,   \* load_test.py:67-69
    latencies,                          \* load_test.py:70
    pc,                 \* per worker: where the thread is in worker()
    reg,                \* per worker: the counter value read by the += in progress, else 0
    outcome,            \* per worker: what the last requests.post did
    success, latency,   \* per worker: the pair returned by send_metric (line 80)
    local_latencies,    \* per worker: load_test.py:77
    wake,               \* per worker: when time.sleep returns
    calls,              \* per worker: send_metric calls completed
    iterations,         \* per worker: loop bodies entered (line 79 found true)
    samples,            \* per worker: generate_metric calls (line 45)
    attempts,           \* per worker: requests.post calls (line 46)
    ok_calls,           \* per worker: requests.post calls answered with status 200
    last_start,         \* per worker: the time.time() of the last line 79 found true
    req_time,           \* per worker: how long the last send_metric call took
    submitted,          \* futures submitted so far (line 94)
    merged,             \* futures whose result was consumed (line 96)
    dpc,                \* where run_load_test is
    report,             \* the values printed by lines 101-116
    error,              \* the exception that ended run_load_test, if any
    analytics,          \* what the analytics read printed (lines 119-131)
    reads,              \* requests.get calls made (line 120)
    timed,              \* whether last_start and req_time are recorded in this run
    sample,             \* the metric last generated, when the generators run alone
    base_rps,           \* locustfile.py:20, the base_rps of the MetricsUser
    run2                \* a second invocation of run_load_test: its locals and
                        \* those of its worker

cfgvars == <<RPS_TARGET, DURATION, THREADS>>
cntvars == <<total_requests, successful_requests, failed_requests>>
ovars == <<timed, sample, base_rps, run2>>
hvars == <<iterations, samples, attempts, ok_calls, last_start, req_time>>
wvars == <<pc, reg, outcome, success, latency, local_latencies, wake, calls, hvars>>
dvars == <<start_time, end_time, request_interval, latencies, submitted, merged,
           dpc, report, error, analytics, reads>>
vars == <<cfgvars, ovars, now, cntvars, wvars, dvars>>

-----------------------------------------------------------------------------
(* Bounds *)

MaxTime == 3
MaxLen == 3

-----------------------------------------------------------------------------
(* Inputs *)

\* 1.0 / (RPS_TARGET / THREADS) is THREADS / RPS_TARGET; the configurations
\* below are those where that quotient is a whole number of seconds.
Abs(x) == IF x < 0 THEN -x ELSE x

Sign(x) == IF x < 0 THEN -1 ELSE 1

Exact(t, r) == r # 0 /\ Abs(t) % Abs(r) = 0

Config(r, d, t) == [RPS_TARGET |-> r, DURATION |-> d, THREADS |-> t]

\* Scaled-down instances of RPS_TARGET = 1000, DURATION = 300, THREADS = 50.
ValidConfigs ==
    { Config(r, d, t) : r \in {1, 2}, d \in {1, 2}, t \in {1, 2} } \
    { Config(2, d, 1) : d \in {1, 2} }

\* The same with non-positive values of each parameter.
AnyConfigs ==
    { c \in { Config(r, d, t) : r \in {-1, 0, 1, 2}, d \in {-1, 0, 1},
                                 t \in {-1, 0, 1, 2} } :
        c.RPS_TARGET = 0 \/ Exact(c.THREADS, c.RPS_TARGET) }

\* response.elapsed, in microseconds.
ElapsedValues == {10000, 20000}

Response(s, e) == [kind |-> "response", status_code |-> s, elapsed |-> e]

\* What requests.post can do: return a response (OK, another 2xx, a server
\* error), time out, or fail in transport.
Responses == { Response(200, e) : e \in ElapsedValues } \cup
             { Response(201, 10000), Response(500, 10000) }

Outcomes == Responses \cup { [kind |-> "timeout", status_code |-> 0, elapsed |-> 0],
                             [kind |-> "error", status_code |-> 0, elapsed |-> 0] }

NoOutcome == [kind |-> "none", status_code |-> 0, elapsed |-> 0]

\* Latencies in ms for the statistics.
LatencyMs == {10, 20, 30, 40, 50}

Workers == 1..THREADS

-----------------------------------------------------------------------------
(* Pure functions *)

\* send_metric taking every 2xx status for a success.
send_metric_2xx(o) ==
    IF o.kind = "response"
    THEN [raised |-> FALSE, success |-> (o.status_code \div 100 = 2),
          latency |-> o.elapsed]
    ELSE [raised |-> FALSE, success |-> FALSE, latency |-> 0]

\* send_metric: the pair (success, latency), or the exception it lets through.
send_metric(o) ==
    IF o.kind = "response"
    THEN [raised |-> FALSE, success |-> (o.status_code = 200), latency |-> o.elapsed]
    ELSE [raised |-> FALSE, success |-> FALSE, latency |-> 0]

\* latency * 1000, line 84
ToMs(lat) == (lat * 1000) \div 1000000

RECURSIVE Insert(_, _)
Insert(x, s) ==
    IF s = <<>> THEN <<x>>
    ELSE IF x <= Head(s) THEN <<x>> \o s
    ELSE <<Head(s)>> \o Insert(x, Tail(s))

\* The list as merged, not sorted.
Sorted_unsorted(s) == s

RECURSIVE Sorted(_)
\* sorted(latencies)
Sorted(s) == IF s = <<>> THEN <<>> ELSE Insert(Head(s), Sorted(Tail(s)))

RECURSIVE SeqSum(_)
SeqSum(s) == IF s = <<>> THEN 0 ELSE Head(s) + SeqSum(Tail(s))

RECURSIVE SeqSumSq(_)
SeqSumSq(s) == IF s = <<>> THEN 0 ELSE Head(s) * Head(s) + SeqSumSq(Tail(s))

\* Python indexes from 0.
At(s, i) == s[i + 1]

MedianIndex(n) == n \div 2

\* int(n * 0.95) and int(n * 0.99): the float product truncated, which is
\* floor(95 n / 100) and floor(99 n / 100) for every n up to 200000.
P95Index(n) == (n * 95) \div 100

P99Index(n) == (n * 99) \div 100

Median(s) == At(Sorted(s), MedianIndex(Len(s)))

P95(s) == At(Sorted(s), P95Index(Len(s)))

P99(s) == At(Sorted(s), P99Index(Len(s)))

\* statistics.mean, as the fraction <<sum, n>>
Mean(s) == <<SeqSum(s), Len(s)>>

\* statistics.stdev: the square root of the fraction <<n*sum(x^2) - sum(x)^2, n*(n-1)>>
StdevSquared(s) ==
    <<Len(s) * SeqSumSq(s) - SeqSum(s) * SeqSum(s), Len(s) * (Len(s) - 1)>>

\* max(0, x)
Max0(x) == IF x > 0 THEN x ELSE 0

\* generate_metric with the rps as drawn.
generate_metric_unclamped(id, g1, u, g2, c, ts) ==
    [timestamp |-> ts, cpu |-> c,
     rps |-> IF u < 5 THEN 100 + g2 * 3 ELSE 100 + g1,
     device_id |-> id]

\* load_test.py generate_metric, from its draws: id = randint(1, 100),
\* g1 = gauss(0, 20), u = random() in hundredths, g2 = gauss(0, 100),
\* c = uniform(0, 100); ts = int(time.time())
generate_metric(id, g1, u, g2, c, ts) ==
    [timestamp |-> ts, cpu |-> c,
     rps |-> Max0(IF u < 5 THEN 100 + g2 * 3 ELSE 100 + g1),
     device_id |-> id]

\* locustfile.py MetricsUser.send_metric, from base_rps, g = gauss(0, 15) and
\* c = uniform(0, 100)
locust_metric(base, g, c, ts) ==
    [timestamp |-> ts, cpu |-> c, rps |-> Max0(base + g), device_id |-> 0]

\* locustfile.py MetricsUser.send_anomalous_metric, from base_rps, the choice
\* of "spike" or "drop", up = uniform(150, 300), down = uniform(100, 200) and
\* c = uniform(0, 100)
locust_anomalous_metric(base, anomaly_type, up, down, c, ts) ==
    [timestamp |-> ts, cpu |-> c,
     rps |-> IF anomaly_type = "spike" THEN base + up ELSE Max0(base - down),
     device_id |-> 0]

\* A second invocation not yet made.
NoRun == [dpc |-> "idle", pc |-> "unsubmitted", end_time |-> 0, wake |-> 0,
          success |-> FALSE, latency |-> 0, calls |-> 0, ok_calls |-> 0,
          total_requests |-> 0, successful_requests |-> 0, failed_requests |-> 0,
          local_latencies |-> <<>>, latencies |-> <<>>, report |-> <<>>]

NoSample == [timestamp |-> 0, cpu |-> 0, rps |-> 0, device_id |-> -1]

\* Values of the random draws.
GaussDraws == {-400, -101, -100, -34, -15, 0, 15, 34, 100, 400}

CpuDraws == {0, 37, 100}

ChanceDraws == {0, 4, 5, 99}

BaseDraws == {80, 100, 120}

SpikeDraws == {150, 225, 300}

DropDraws == {100, 121, 200}

RECURSIVE SumOver(_, _)
SumOver(f, S) ==
    IF S = {} THEN 0
    ELSE LET w == CHOOSE x \in S : TRUE IN f[w] + SumOver(f, S \ {w})

NoReport == [total |-> <<>>, successful |-> <<>>, failed |-> <<>>, elapsed |-> <<>>,
             actual_rps |-> <<>>, success_rate |-> <<>>, mean |-> <<>>,
             median |-> <<>>, p95 |-> <<>>, p99 |-> <<>>, stdev |-> <<>>]

-----------------------------------------------------------------------------
(* Initial states *)

InitRest ==
    /\ now = 0
    /\ start_time = 0
    /\ end_time = 0
    /\ request_interval = 0
    /\ total_requests = 0
    /\ successful_requests = 0
    /\ failed_requests = 0
    /\ latencies = <<>>
    /\ pc = [w \in Workers |-> "unsubmitted"]
    /\ reg = [w \in Workers |-> 0]
    /\ outcome = [w \in Workers |-> NoOutcome]
    /\ success = [w \in Workers |-> FALSE]
    /\ latency = [w \in Workers |-> 0]
    /\ local_latencies = [w \in Workers |-> <<>>]
    /\ wake = [w \in Workers |-> 0]
    /\ calls = [w \in Workers |-> 0]
    /\ iterations = [w \in Workers |-> 0]
    /\ samples = [w \in Workers |-> 0]
    /\ attempts = [w \in Workers |-> 0]
    /\ ok_calls = [w \in Workers |-> 0]
    /\ last_start = [w \in Workers |-> 0]
    /\ req_time = [w \in Workers |-> 0]
    /\ submitted = 0
    /\ merged = {}
    /\ dpc = "init"
    /\ report = NoReport
    /\ error = <<>>
    /\ analytics = "none"
    /\ reads = 0
    /\ sample = NoSample
    /\ run2 = NoRun

InitConfig(C) ==
    \E c \in C :
        /\ RPS_TARGET = c.RPS_TARGET
        /\ DURATION = c.DURATION
        /\ THREADS = c.THREADS

\* load_test.py alone: no MetricsUser, no timing recorded.
Plain == timed = FALSE /\ base_rps = 0

Init == InitConfig(ValidConfigs) /\ InitRest /\ Plain

InitCfg == InitConfig(AnyConfigs) /\ InitRest /\ Plain

\* The configurations of the runs whose timing is recorded.
PaceConfigs == ValidConfigs \ {Config(2, 2, 2)}

InitPace == InitConfig(PaceConfigs) /\ InitRest /\ timed = TRUE /\ base_rps = 0

-----------------------------------------------------------------------------
(* The clock, counted from the start of run_load_test *)

\* Some worker is in time.sleep and its interval has not passed.
ClockAwaited ==
    IF run2.pc = "sleeping" /\ now < run2.wake THEN TRUE
    ELSE \E w \in Workers : pc[w] = "sleeping" /\ now < wake[w]

\* The clock is followed up to MaxTime, and further while a sleep waits for it.
Tick ==
    /\ dpc # "init"
    /\ IF now < MaxTime THEN TRUE ELSE ClockAwaited
    /\ now' = now + 1
    /\ UNCHANGED <<cfgvars, ovars, cntvars, wvars, dvars>>

-----------------------------------------------------------------------------
(* run_load_test up to the start of the workers *)

Crash(exc, line) ==
    /\ error' = <<exc, line>>
    /\ dpc' = "crashed"

\* The quotient turned over: RPS_TARGET / THREADS, rounded down.
IntervalOf_inverted(r, t) == Sign(r) * Sign(t) * (Abs(r) \div Abs(t))

\* THREADS / RPS_TARGET, for the configurations where it is whole
IntervalOf(r, t) == Sign(r) * Sign(t) * (Abs(t) \div Abs(r))

\* lines 64-73
D_Init ==
    /\ dpc = "init"
    /\ start_time' = now
    /\ end_time' = now + DURATION
    /\ total_requests' = 0
    /\ successful_requests' = 0
    /\ failed_requests' = 0
    /\ latencies' = <<>>
    /\ IF THREADS = 0 \/ RPS_TARGET = 0
       THEN /\ Crash("ZeroDivisionError", 73)
            /\ UNCHANGED request_interval
       ELSE /\ request_interval' = IntervalOf(RPS_TARGET, THREADS)
            /\ dpc' = "executor"
            /\ UNCHANGED error
    /\ UNCHANGED <<cfgvars, ovars, now, wvars, submitted, merged, report, analytics, reads>>

\* line 93: ThreadPoolExecutor(max_workers=THREADS) raises ValueError unless THREADS > 0
D_Executor ==
    /\ dpc = "executor"
    /\ IF THREADS <= 0
       THEN Crash("ValueError", 93)
       ELSE /\ dpc' = "submit"
            /\ UNCHANGED error
    /\ UNCHANGED <<cfgvars, ovars, now, cntvars, wvars, start_time, end_time,
                   request_interval, latencies, submitted, merged, report, analytics, reads>>

\* line 94: executor.submit(worker), THREADS times; each starts a thread
D_Submit ==
    /\ dpc = "submit"
    /\ submitted < THREADS
    /\ submitted' = submitted + 1
    /\ pc' = [pc EXCEPT ![submitted + 1] = "check"]
    /\ dpc' = IF submitted + 1 = THREADS THEN "collect" ELSE "submit"
    /\ UNCHANGED <<cfgvars, ovars, now, cntvars, reg, outcome, success, latency,
                   local_latencies, wake, calls, hvars, start_time, end_time,
                   request_interval, latencies, merged, report, error, analytics, reads>>

-----------------------------------------------------------------------------
(* worker(), lines 75-90 *)

\* The deadline test taking the deadline itself for open.
BeforeDeadline_inclusive == now <= end_time

\* line 79: time.time() < end_time
BeforeDeadline == now < end_time

\* line 79: while time.time() < end_time; line 90: return local_latencies
W_Check(w) ==
    /\ pc[w] = "check"
    /\ IF BeforeDeadline
       THEN /\ pc' = [pc EXCEPT ![w] = "send"]
            /\ iterations' = [iterations EXCEPT ![w] = @ + 1]
            /\ last_start' = IF timed THEN [last_start EXCEPT ![w] = now]
                             ELSE last_start
       ELSE /\ pc' = [pc EXCEPT ![w] = "done"]
            /\ UNCHANGED <<iterations, last_start>>
    /\ UNCHANGED <<cfgvars, ovars, now, cntvars, reg, outcome, success, latency,
                   local_latencies, wake, calls, samples, attempts, ok_calls,
                   req_time, dvars>>

\* send_metric sending again after a failed attempt.
Attempts_retry(o) == IF o.kind = "response" /\ o.status_code = 200 THEN 1 ELSE 2

\* lines 46-50: the requests.post calls of one send_metric call
Attempts(o) == 1

\* line 80: success, latency = send_metric(), which generates one metric
\* (line 45) and posts it (lines 46-50)
W_Send(w) ==
    /\ pc[w] = "send"
    /\ \E o \in Outcomes :
         LET r == send_metric(o) IN
         /\ outcome' = [outcome EXCEPT ![w] = o]
         /\ samples' = [samples EXCEPT ![w] = @ + 1]
         /\ attempts' = [attempts EXCEPT ![w] = @ + Attempts(o)]
         /\ ok_calls' = [ok_calls EXCEPT ![w] =
                IF o.kind = "response" /\ o.status_code = 200 THEN @ + 1 ELSE @]
         /\ IF r.raised
            THEN /\ pc' = [pc EXCEPT ![w] = "raised"]
                 /\ UNCHANGED <<success, latency, calls>>
            ELSE /\ pc' = [pc EXCEPT ![w] = "load_total"]
                 /\ success' = [success EXCEPT ![w] = r.success]
                 /\ latency' = [latency EXCEPT ![w] = r.latency]
                 /\ calls' = [calls EXCEPT ![w] = @ + 1]
    /\ req_time' = IF timed THEN [req_time EXCEPT ![w] = now - last_start[w]]
                   ELSE req_time
    /\ UNCHANGED <<cfgvars, ovars, now, cntvars, reg, local_latencies, wake, iterations,
                   last_start, dvars>>

\* line 81, the read of total_requests += 1
W_LoadTotal(w) ==
    /\ pc[w] = "load_total"
    /\ reg' = [reg EXCEPT ![w] = total_requests]
    /\ pc' = [pc EXCEPT ![w] = "store_total"]
    /\ UNCHANGED <<cfgvars, ovars, now, cntvars, outcome, success, latency,
                   local_latencies, wake, calls, hvars, dvars>>

\* line 81, the write of total_requests += 1; line 82: if success
W_StoreTotal(w) ==
    /\ pc[w] = "store_total"
    /\ total_requests' = reg[w] + 1
    /\ reg' = [reg EXCEPT ![w] = 0]
    /\ pc' = [pc EXCEPT ![w] = IF success[w] THEN "load_succ" ELSE "load_fail"]
    /\ UNCHANGED <<cfgvars, ovars, now, successful_requests, failed_requests, outcome,
                   success, latency, local_latencies, wake, calls, hvars, dvars>>

\* line 83, the read of successful_requests += 1
W_LoadSucc(w) ==
    /\ pc[w] = "load_succ"
    /\ reg' = [reg EXCEPT ![w] = successful_requests]
    /\ pc' = [pc EXCEPT ![w] = "store_succ"]
    /\ UNCHANGED <<cfgvars, ovars, now, cntvars, outcome, success, latency,
                   local_latencies, wake, calls, hvars, dvars>>

\* line 83, the write; line 84: local_latencies.append(latency * 1000)
W_StoreSucc(w) ==
    /\ pc[w] = "store_succ"
    /\ successful_requests' = reg[w] + 1
    /\ reg' = [reg EXCEPT ![w] = 0]
    /\ local_latencies' = [local_latencies EXCEPT ![w] = Append(@, ToMs(latency[w]))]
    /\ pc' = [pc EXCEPT ![w] = "sleep"]
    /\ UNCHANGED <<cfgvars, ovars, now, total_requests, failed_requests, outcome,
                   success, latency, wake, calls, hvars, dvars>>

\* line 86, the read of failed_requests += 1
W_LoadFail(w) ==
    /\ pc[w] = "load_fail"
    /\ reg' = [reg EXCEPT ![w] = failed_requests]
    /\ pc' = [pc EXCEPT ![w] = "store_fail"]
    /\ UNCHANGED <<cfgvars, ovars, now, cntvars, outcome, success, latency,
                   local_latencies, wake, calls, hvars, dvars>>

\* line 86, the write
W_StoreFail(w) ==
    /\ pc[w] = "store_fail"
    /\ failed_requests' = reg[w] + 1
    /\ reg' = [reg EXCEPT ![w] = 0]
    /\ pc' = [pc EXCEPT ![w] = "sleep"]
    /\ UNCHANGED <<cfgvars, ovars, now, total_requests, successful_requests, outcome,
                   success, latency, local_latencies, wake, calls, hvars, dvars>>

\* line 88: time.sleep(request_interval); a negative length raises ValueError
W_Sleep(w) ==
    /\ pc[w] = "sleep"
    /\ IF request_interval < 0
       THEN /\ pc' = [pc EXCEPT ![w] = "raised"]
            /\ UNCHANGED wake
       ELSE /\ pc' = [pc EXCEPT ![w] = "sleeping"]
            /\ wake' = [wake EXCEPT ![w] = now + request_interval]
    /\ UNCHANGED <<cfgvars, ovars, now, cntvars, reg, outcome, success, latency,
                   local_latencies, calls, hvars, dvars>>

\* A sleep that never returns.
SleepOver_never(w) == FALSE

\* line 88: the interval of time.sleep has passed
SleepOver(w) == now >= wake[w]

\* line 88: time.sleep returns once the interval has passed
W_Wake(w) ==
    /\ pc[w] = "sleeping"
    /\ SleepOver(w)
    /\ pc' = [pc EXCEPT ![w] = "check"]
    /\ UNCHANGED <<cfgvars, ovars, now, cntvars, reg, outcome, success, latency,
                   local_latencies, wake, calls, hvars, dvars>>

-----------------------------------------------------------------------------
(* run_load_test from the join to the end *)

\* A future taken for complete as soon as its worker runs.
Returned_started(w) == pc[w] # "unsubmitted"

\* A future is complete: its worker returned or raised.
Returned(w) == pc[w] \in {"done", "raised"}

\* lines 95-96: as_completed yields a complete future; result() returns the
\* worker's list or raises the worker's exception
D_Collect(w) ==
    /\ dpc = "collect"
    /\ w \notin merged
    /\ Returned(w)
    /\ merged' = merged \cup {w}
    /\ IF pc[w] = "raised"
       THEN /\ error' = <<"ValueError", 88>>
            /\ dpc' = "unwind"
            /\ UNCHANGED latencies
       ELSE /\ latencies' = latencies \o local_latencies[w]
            /\ UNCHANGED <<error, dpc>>
    /\ UNCHANGED <<cfgvars, ovars, now, cntvars, wvars, start_time, end_time,
                   request_interval, submitted, report, analytics, reads>>

\* line 93, leaving the with block: shutdown(wait=True) joins every worker thread;
\* then line 98 follows, or the exception of result() goes on
D_Join ==
    /\ dpc \in {"collect", "unwind"}
    /\ dpc = "collect" => merged = Workers
    /\ \A w \in Workers : Returned(w)
    /\ dpc' = IF dpc = "collect" THEN "summary" ELSE "crashed"
    /\ UNCHANGED <<cfgvars, ovars, now, cntvars, wvars, start_time, end_time,
                   request_interval, latencies, submitted, merged, report, error,
                   analytics, reads>>

\* lines 98-107: every value is a fraction <<numerator, denominator>> or a number
D_Summary ==
    /\ dpc = "summary"
    /\ LET elapsed == now - start_time IN
       IF elapsed = 0
       THEN /\ Crash("ZeroDivisionError", 99)
            /\ UNCHANGED report
       ELSE /\ report' = [report EXCEPT
                            !.total = <<total_requests>>,
                            !.successful = <<successful_requests>>,
                            !.failed = <<failed_requests>>,
                            !.elapsed = <<elapsed>>,
                            !.actual_rps = <<total_requests, elapsed>>,
                            !.success_rate =
                                IF total_requests = 0 THEN <<>>
                                ELSE <<successful_requests * 100, total_requests>>]
            /\ IF total_requests = 0
               THEN Crash("ZeroDivisionError", 107)
               ELSE /\ dpc' = "latency_stats"
                    /\ UNCHANGED error
    /\ UNCHANGED <<cfgvars, ovars, now, cntvars, wvars, start_time, end_time,
                   request_interval, latencies, submitted, merged, analytics, reads>>

\* lines 109-116
D_Stats ==
    /\ dpc = "latency_stats"
    /\ report' = IF latencies # <<>>
                 THEN [report EXCEPT
                         !.mean = Mean(latencies),
                         !.median = <<Median(latencies)>>,
                         !.p95 = <<P95(latencies)>>,
                         !.p99 = <<P99(latencies)>>,
                         !.stdev = IF Len(latencies) > 1
                                   THEN StdevSquared(latencies) ELSE <<>>]
                 ELSE report
    /\ dpc' = "analytics"
    /\ UNCHANGED <<cfgvars, ovars, now, cntvars, wvars, start_time, end_time,
                   request_interval, latencies, submitted, merged, error, analytics, reads>>

\* What requests.get(.../analyze), response.json() and the prints can do: a
\* JSON object with the fields, one without them (printed as 0), a body that
\* is no JSON, a JSON value that is no object, a status other than 200, a
\* timeout, a transport error.
AnalyticsOutcomes ==
    {"fields", "missing_fields", "bad_body", "not_object", "not_200", "timeout", "error"}

\* The try block catching the errors of requests only.
analytics_read_uncaught(a) ==
    [raised |-> a \in {"bad_body", "not_object"},
     printed |-> CASE a \in {"fields", "missing_fields"} -> "printed"
                   [] a = "not_200" -> "none"
                   [] OTHER -> "failed"]

\* lines 119-131: what is printed, and whether an exception leaves the try
\* block (except Exception catches every one)
analytics_read(a) ==
    [raised |-> FALSE,
     printed |-> CASE a \in {"fields", "missing_fields"} -> "printed"
                   [] a = "not_200" -> "none"
                   [] OTHER -> "failed"]

\* lines 119-131
D_Analytics ==
    /\ dpc = "analytics"
    /\ reads' = reads + 1
    /\ \E a \in AnalyticsOutcomes :
         LET r == analytics_read(a) IN
         /\ analytics' = r.printed
         /\ IF r.raised
            THEN Crash("ValueError", 122)
            ELSE /\ dpc' = "done"
                 /\ UNCHANGED error
    /\ UNCHANGED <<cfgvars, ovars, now, cntvars, wvars, start_time, end_time,
                   request_interval, latencies, submitted, merged, report>>

-----------------------------------------------------------------------------
(* Specifications *)

Next ==
    \/ Tick
    \/ D_Init
    \/ D_Executor
    \/ D_Submit
    \/ \E w \in Workers : W_Check(w)
    \/ \E w \in Workers : W_Send(w)
    \/ \E w \in Workers : W_LoadTotal(w)
    \/ \E w \in Workers : W_StoreTotal(w)
    \/ \E w \in Workers : W_LoadSucc(w)
    \/ \E w \in Workers : W_StoreSucc(w)
    \/ \E w \in Workers : W_LoadFail(w)
    \/ \E w \in Workers : W_StoreFail(w)
    \/ \E w \in Workers : W_Sleep(w)
    \/ \E w \in Workers : W_Wake(w)
    \/ \E w \in Workers : D_Collect(w)
    \/ D_Join
    \/ D_Summary
    \/ D_Stats
    \/ D_Analytics

\* Runs with positive RPS_TARGET, DURATION and THREADS.
Spec == Init /\ [][Next]_vars

\* Runs with any configuration.
SpecCfg == InitCfg /\ [][Next]_vars

\* Runs with the times of each worker's requests recorded.
SpecPace == InitPace /\ [][Next]_vars

\* The generators on their own, with the draws of the random module taken
\* from the sets above.
G_Generate ==
    /\ \E id \in {1, 100}, g1 \in GaussDraws, u \in ChanceDraws, g2 \in GaussDraws,
          c \in CpuDraws :
         sample' = generate_metric(id, g1, u, g2, c, now)
    /\ UNCHANGED <<cfgvars, timed, base_rps, run2, now, cntvars, wvars, dvars>>

L_SendMetric ==
    /\ \E g \in GaussDraws, c \in CpuDraws :
         sample' = locust_metric(base_rps, g, c, now)
    /\ UNCHANGED <<cfgvars, timed, base_rps, run2, now, cntvars, wvars, dvars>>

L_SendAnomalousMetric ==
    /\ \E anomaly_type \in {"spike", "drop"}, up \in SpikeDraws, down \in DropDraws,
          c \in CpuDraws :
         sample' = locust_anomalous_metric(base_rps, anomaly_type, up, down, c, now)
    /\ UNCHANGED <<cfgvars, timed, base_rps, run2, now, cntvars, wvars, dvars>>

\* locustfile.py:19-20, on_start, has drawn base_rps from uniform(80, 120).
InitGen ==
    /\ InitConfig({Config(1, 1, 1)})
    /\ InitRest
    /\ timed = FALSE
    /\ base_rps \in BaseDraws

NextGen ==
    \/ G_Generate
    \/ L_SendMetric
    \/ L_SendAnomalousMetric

SpecGen == InitGen /\ [][NextGen]_vars

-----------------------------------------------------------------------------
(* A second invocation of run_load_test, concurrent with the first.  It runs *)
(* the same code with the same RPS_TARGET, DURATION and THREADS; its steps  *)
(* are taken a line group at a time.                                        *)

\* The counters as module-level names: every invocation updates those of the
\* first.
Binding_global(r) == 1

\* lines 67-70 and 76: total_requests, successful_requests, failed_requests and
\* latencies are locals of the invocation, and nonlocal in worker binds its
\* worker to them: the worker of invocation r updates the locals of r
Binding(r) == r

\* lines 64-94 of the second invocation (THREADS = 1 in these runs)
R2_Start ==
    /\ run2.dpc = "idle"
    /\ dpc # "init"
    /\ IF Binding(2) = 2
       THEN /\ run2' = [run2 EXCEPT !.dpc = "collect", !.pc = "check",
                                    !.end_time = now + DURATION,
                                    !.total_requests = 0,
                                    !.successful_requests = 0,
                                    !.failed_requests = 0,
                                    !.latencies = <<>>]
            /\ UNCHANGED <<cntvars, latencies>>
       ELSE /\ run2' = [run2 EXCEPT !.dpc = "collect", !.pc = "check",
                                    !.end_time = now + DURATION]
            /\ total_requests' = 0
            /\ successful_requests' = 0
            /\ failed_requests' = 0
            /\ latencies' = <<>>
    /\ UNCHANGED <<cfgvars, timed, sample, base_rps, now, wvars, start_time,
                   end_time, request_interval, submitted, merged, dpc, report,
                   error, analytics, reads>>

\* line 79 of its worker
R2_Check ==
    /\ run2.pc = "check"
    /\ run2' = [run2 EXCEPT !.pc = IF now < run2.end_time THEN "send" ELSE "done"]
    /\ UNCHANGED <<cfgvars, timed, sample, base_rps, now, cntvars, wvars, dvars>>

\* line 80 of its worker
R2_Send ==
    /\ run2.pc = "send"
    /\ \E o \in Outcomes :
         LET r == send_metric(o) IN
         run2' = [run2 EXCEPT !.pc = "count",
                              !.success = r.success,
                              !.latency = r.latency,
                              !.calls = @ + 1,
                              !.ok_calls = IF o.kind = "response" /\ o.status_code = 200
                                           THEN @ + 1 ELSE @]
    /\ UNCHANGED <<cfgvars, timed, sample, base_rps, now, cntvars, wvars, dvars>>

\* lines 81-88 of its worker: the increments, the append, the start of the sleep
R2_Count ==
    /\ run2.pc = "count"
    /\ LET slept == [run2 EXCEPT !.pc = "sleeping",
                                 !.wake = now + request_interval,
                                 !.local_latencies =
                                     IF run2.success THEN Append(@, ToMs(run2.latency))
                                     ELSE @]
       IN
       IF Binding(2) = 2
       THEN /\ run2' = [slept EXCEPT
                           !.total_requests = @ + 1,
                           !.successful_requests = IF run2.success THEN @ + 1 ELSE @,
                           !.failed_requests = IF run2.success THEN @ ELSE @ + 1]
            /\ UNCHANGED cntvars
       ELSE /\ run2' = slept
            /\ total_requests' = total_requests + 1
            /\ successful_requests' =
                  IF run2.success THEN successful_requests + 1 ELSE successful_requests
            /\ failed_requests' =
                  IF run2.success THEN failed_requests ELSE failed_requests + 1
    /\ UNCHANGED <<cfgvars, timed, sample, base_rps, now, wvars, dvars>>

\* line 88 of its worker: time.sleep returns
R2_Wake ==
    /\ run2.pc = "sleeping"
    /\ now >= run2.wake
    /\ run2' = [run2 EXCEPT !.pc = "check"]
    /\ UNCHANGED <<cfgvars, timed, sample, base_rps, now, cntvars, wvars, dvars>>

\* lines 93-104 of the second invocation: the join, the merge, the counters
\* read for the report
R2_Finish ==
    /\ run2.dpc = "collect"
    /\ run2.pc = "done"
    /\ IF Binding(2) = 2
       THEN /\ run2' = [run2 EXCEPT
                           !.dpc = "done",
                           !.latencies = @ \o run2.local_latencies,
                           !.report = <<run2.total_requests, run2.successful_requests,
                                        run2.failed_requests>>]
            /\ UNCHANGED latencies
       ELSE /\ run2' = [run2 EXCEPT
                           !.dpc = "done",
                           !.report = <<total_requests, successful_requests,
                                        failed_requests>>]
            /\ latencies' = latencies \o run2.local_latencies
    /\ UNCHANGED <<cfgvars, timed, sample, base_rps, now, cntvars, wvars, start_time,
                   end_time, request_interval, submitted, merged, dpc, report,
                   error, analytics, reads>>

InitRuns == InitConfig({Config(1, 1, 1)}) /\ InitRest /\ Plain

NextRuns ==
    \/ Next
    \/ R2_Start
    \/ R2_Check
    \/ R2_Send
    \/ R2_Count
    \/ R2_Wake
    \/ R2_Finish

\* Two invocations of run_load_test at once.
SpecRuns == InitRuns /\ [][NextRuns]_vars

\* The steps of worker w.
WorkerStep(w) ==
    /\ w \in Workers
    /\ \/ W_Check(w) \/ W_Send(w)
       \/ W_LoadTotal(w) \/ W_StoreTotal(w)
       \/ W_LoadSucc(w) \/ W_StoreSucc(w)
       \/ W_LoadFail(w) \/ W_StoreFail(w)
       \/ W_Sleep(w) \/ W_Wake(w)

\* The steps of run_load_test itself.
DriverStep ==
    \/ D_Init \/ D_Executor \/ D_Submit
    \/ \E w \in Workers : D_Collect(w)
    \/ D_Join \/ D_Summary \/ D_Stats \/ D_Analytics

\* The clock advances, every thread that can take a step takes one in the
\* end (a request in flight returns: its timeout is 5 seconds), and so does
\* run_load_test.
Fairness ==
    /\ WF_vars(Tick)
    /\ WF_vars(DriverStep)
    /\ \A w \in {1, 2} : WF_vars(WorkerStep(w))

InitLive == InitConfig(PaceConfigs) /\ InitRest /\ Plain

\* Runs under fair scheduling.
SpecLive == InitLive /\ [][Next]_vars /\ Fairness

-----------------------------------------------------------------------------
(* The statistics on their own: the run at the join, every worker returned  *)
(* with a buffer of up to MaxLen latencies (the second worker having made   *)
(* one request less), all requests successful.                             *)

BoundedSeqs(S, n) == UNION { [1..k -> S] : k \in 0..n }

Last(s) == s[Len(s)]

InitStats ==
    /\ InitConfig({Config(2, MaxLen, 2)})
    /\ start_time = 0
    /\ end_time = DURATION
    /\ now = end_time
    /\ request_interval = IntervalOf(RPS_TARGET, THREADS)
    /\ local_latencies \in [Workers -> BoundedSeqs(LatencyMs, MaxLen)]
    /\ Len(local_latencies[2]) < MaxLen
    /\ calls = [w \in Workers |-> Len(local_latencies[w])]
    /\ total_requests = SumOver(calls, Workers)
    /\ successful_requests = total_requests
    /\ failed_requests = 0
    /\ latencies = <<>>
    /\ pc = [w \in Workers |-> "done"]
    /\ reg = [w \in Workers |-> 0]
    /\ success = [w \in Workers |-> calls[w] > 0]
    /\ latency = [w \in Workers |->
                    IF calls[w] > 0 THEN Last(local_latencies[w]) * 1000 ELSE 0]
    /\ outcome = [w \in Workers |->
                    IF calls[w] > 0 THEN Response(200, latency[w]) ELSE NoOutcome]
    /\ wake = [w \in Workers |-> IF calls[w] > 0 THEN end_time ELSE 0]
    /\ iterations = calls
    /\ samples = calls
    /\ attempts = calls
    /\ ok_calls = calls
    /\ last_start = [w \in Workers |-> 0]
    /\ timed = FALSE
    /\ sample = NoSample
    /\ base_rps = 0
    /\ run2 = NoRun
    /\ req_time = [w \in Workers |-> 0]
    /\ reads = 0
    /\ submitted = THREADS
    /\ merged = {}
    /\ dpc = "collect"
    /\ report = NoReport
    /\ error = <<>>
    /\ analytics = "none"

NextStats ==
    \/ \E w \in Workers : D_Collect(w)
    \/ D_Join
    \/ D_Summary
    \/ D_Stats
    \/ D_Analytics

SpecStats == InitStats /\ [][NextStats]_vars

-----------------------------------------------------------------------------
(* Properties *)

\* run_load_test is past the with block of line 93 (at line 98 or later).
Joined ==
    \/ dpc \in {"summary", "latency_stats", "analytics", "done"}
    \/ dpc = "crashed" /\ error[2] \in {99, 107, 122}

TotalCalls == SumOver(calls, Workers)

\* C1: once all workers have joined, total_requests is successful_requests
\* plus failed_requests.
C1_TotalIsSum ==
    Joined => total_requests = successful_requests + failed_requests

\* C2: no increment of a shared counter is lost: once all workers have
\* joined, total_requests is the number of send_metric calls completed.
C2_NoLostIncrement ==
    Joined => total_requests = TotalCalls

\* C3: once all workers have joined, the merged latencies are as many as
\* successful_requests says.
C3_LatenciesMatchSuccessful ==
    Joined /\ merged = Workers => Len(latencies) = successful_requests

\* C4: no step makes total_requests, successful_requests or failed_requests
\* smaller.
C4_CountersMonotone ==
    [][/\ total_requests' >= total_requests
       /\ successful_requests' >= successful_requests
       /\ failed_requests' >= failed_requests]_vars

\* C5: send_metric never raises into the worker loop, and the success it
\* returns is true exactly when a response came back with status 200; for a
\* timeout or a transport error it returns (False, 0).
C5_SendMetricOutcome ==
    \A w \in Workers :
        /\ pc[w] # "raised"
        /\ calls[w] > 0 =>
             /\ success[w] <=> (outcome[w].kind = "response"
                                /\ outcome[w].status_code = 200)
             /\ outcome[w].kind # "response" => latency[w] = 0

C5_Witness ==
    /\ THREADS = 2
    /\ pc[1] = "load_succ" /\ outcome[1].status_code = 200
    /\ pc[2] = "load_fail" /\ outcome[2].status_code = 201

\* C6: a run that ends with total_requests = 0 gets through the summary with
\* a success rate reported.
C6_ZeroTotalSummaryDefined ==
    Joined /\ dpc # "summary" /\ total_requests = 0 =>
        error = <<>> /\ report.success_rate # <<>>

\* C7: with a non-positive RPS_TARGET, DURATION or THREADS no worker is
\* started and no request is sent.
C7_BadConfigRejected ==
    RPS_TARGET <= 0 \/ DURATION <= 0 \/ THREADS <= 0 =>
        submitted = 0 /\ TotalCalls = 0

\* C8: run_load_test gets past the join only when every worker has returned,
\* and from then on no counter and no latency list changes.
C8_JoinBarrier ==
    [][/\ Joined' => \A w \in Workers : pc'[w] = "done"
       /\ Joined => UNCHANGED <<cntvars, latencies, local_latencies>>]_vars

C8_Witness ==
    /\ dpc = "done"
    /\ THREADS = 2
    /\ calls[1] > 0 /\ calls[2] > 0
    /\ report.total = <<total_requests>>

RECURSIVE ConcatUpTo(_)
\* The workers' buffers, concatenated in the order of the workers.
ConcatUpTo(n) ==
    IF n = 0 THEN <<>> ELSE ConcatUpTo(n - 1) \o local_latencies[n]

CountBelow(s, v) == Cardinality({ i \in 1..Len(s) : s[i] < v })

CountUpTo(s, v) == Cardinality({ i \in 1..Len(s) : s[i] <= v })

\* v is the element at index k (from 0) of s in ascending order.
IsOrderStat(s, k, v) ==
    /\ \E i \in 1..Len(s) : s[i] = v
    /\ CountBelow(s, v) <= k
    /\ k < CountUpTo(s, v)

Elements(s) == { s[i] : i \in 1..Len(s) }

\* C9: the reported median, P95 and P99 are the elements of the latencies in
\* ascending order at indices floor(n/2), floor(n*0.95) and floor(n*0.99),
\* whatever the order the buffers were merged in; the indices are within
\* 0..n-1; for 10, 20, 30, 40, 50 they are 30, 50 and 50.
C9_Percentiles ==
    dpc = "analytics" /\ latencies # <<>> =>
        LET c == ConcatUpTo(THREADS)
            n == Len(c)
        IN  /\ Len(latencies) = n
            /\ report.median # <<>> /\ report.p95 # <<>> /\ report.p99 # <<>>
            /\ IsOrderStat(c, n \div 2, report.median[1])
            /\ IsOrderStat(c, (n * 95) \div 100, report.p95[1])
            /\ IsOrderStat(c, (n * 99) \div 100, report.p99[1])
            /\ n = 5 /\ Elements(c) = {10, 20, 30, 40, 50} =>
                 /\ report.median = <<30>>
                 /\ report.p95 = <<50>>
                 /\ report.p99 = <<50>>
            /\ \A m \in 1..(50 * MaxLen) :
                 {MedianIndex(m), P95Index(m), P99Index(m)} \subseteq 0..(m - 1)

C9_Witness ==
    /\ dpc = "analytics"
    /\ local_latencies[1] = <<50, 10, 30>>
    /\ local_latencies[2] = <<40, 20>>
    /\ latencies = <<40, 20, 50, 10, 30>>
    /\ report.median = <<30>>

\* C10: when every request of a run has failed, after the join
\* successful_requests is 0, failed_requests is total_requests, latencies is
\* empty, and the summary leaves the latency statistics out and does not fail.
C10_AllFailed ==
    /\ Joined
    /\ TotalCalls > 0
    /\ \A w \in Workers : local_latencies[w] = <<>>
    => /\ successful_requests = 0
       /\ failed_requests = total_requests
       /\ latencies = <<>>
       /\ error = <<>>
       /\ dpc \in {"analytics", "done"} =>
            /\ report.mean = <<>> /\ report.median = <<>>
            /\ report.p95 = <<>> /\ report.p99 = <<>> /\ report.stdev = <<>>

\* C11: the analytics read is made at most once, after the join and the
\* summary; whatever it does, run_load_test ends normally with the counters,
\* the latencies and the summary as they were.
C11_AnalyticsBestEffort ==
    [][/\ reads' # reads =>
            /\ reads = 0 /\ reads' = 1
            /\ dpc = "analytics"
            /\ \A w \in Workers : pc[w] = "done"
            /\ report.total # <<>> /\ report.success_rate # <<>>
       /\ dpc = "analytics" /\ dpc' # dpc =>
            /\ dpc' = "done"
            /\ error' = <<>>
            /\ reads' = 1
            /\ UNCHANGED <<cntvars, latencies, local_latencies, report>>]_vars

C11_Witness ==
    /\ dpc = "done"
    /\ analytics = "failed"
    /\ reads = 1
    /\ total_requests > 0
    /\ latencies # <<>>

\* C12: no retry: every loop iteration generates one sample and posts it
\* once, failed or not, so attempts, samples and iterations are equal in
\* number (an iteration that has not yet called send_metric aside).
C12_NoRetry ==
    \A w \in Workers :
        /\ attempts[w] = samples[w]
        /\ iterations[w] = samples[w] + (IF pc[w] = "send" THEN 1 ELSE 0)
        /\ calls[w] = attempts[w]

C12_Witness ==
    \E w \in Workers :
        /\ pc[w] = "done"
        /\ iterations[w] = 2
        /\ attempts[w] = 2
        /\ ok_calls[w] = 0

\* A worker starts a request only when line 79 found now < end_time, and does
\* nothing once it has returned.
DeadlineRespected ==
    \A w \in Workers :
        /\ pc[w] = "check" /\ pc'[w] = "send" => now < end_time
        /\ pc[w] = "check" /\ pc'[w] = "done" => now >= end_time
        /\ pc[w] = "done" => pc'[w] = "done" /\ attempts'[w] = attempts[w]

\* C16 as stated: the deadline is respected, and a worker that has made a
\* request returns no later than end_time plus the time of its last request
\* plus one pacing interval.
C16_OvershootBound ==
    [][/\ DeadlineRespected
       /\ \A w \in Workers :
            pc[w] = "check" /\ pc'[w] = "done" /\ calls[w] > 0 =>
                now <= end_time + req_time[w] + request_interval]_vars

\* C16 as amended: the deadline is respected; the last iteration of a worker
\* starts before end_time, its sleep is asked to end one pacing interval after
\* it starts, and the worker returns no earlier than the start of that
\* iteration plus the time of its request plus one pacing interval.
C16_Overshoot ==
    [][/\ DeadlineRespected
       /\ \A w \in Workers :
            /\ calls'[w] > 0 => last_start'[w] < end_time
            /\ pc[w] = "sleep" /\ pc'[w] = "sleeping" =>
                  wake'[w] = now + request_interval
            /\ pc[w] = "check" /\ pc'[w] = "done" /\ calls[w] > 0 =>
                  now >= last_start[w] + req_time[w] + request_interval]_vars

\* A worker has returned later than end_time plus the time of its last
\* request plus one pacing interval.
C16_Witness ==
    \E w \in Workers :
        /\ pc[w] = "done"
        /\ calls[w] > 0
        /\ wake[w] > end_time + req_time[w] + request_interval

\* C17: the interval is THREADS / RPS_TARGET; every request, failed or not,
\* is followed by a sleep of one interval; two requests of a worker start at
\* least one interval apart; the requests of a run are at most
\* THREADS * (floor(DURATION / interval) + 1).
C17_Pacing ==
    [][/\ dpc' \notin {"init", "crashed"} => request_interval' * RPS_TARGET = THREADS
       /\ \A w \in Workers :
            /\ pc[w] \in {"store_succ", "store_fail"} /\ pc'[w] # pc[w] =>
                  pc'[w] = "sleep"
            /\ pc[w] = "sleep" /\ pc'[w] # pc[w] =>
                  pc'[w] = "sleeping" /\ wake'[w] = now + request_interval
            /\ pc[w] = "sleeping" /\ pc'[w] # pc[w] => now >= wake[w]
            /\ pc[w] = "check" /\ pc'[w] = "send" /\ calls[w] > 0 =>
                  now >= last_start[w] + request_interval
       /\ dpc' \notin {"init", "crashed"} =>
            /\ SumOver(attempts', Workers)
                  <= THREADS * ((DURATION \div request_interval') + 1)
            /\ total_requests'
                  <= THREADS * ((DURATION \div request_interval') + 1)]_vars

C17_Witness ==
    /\ THREADS = 2
    /\ request_interval = 2
    /\ pc[1] = "done" /\ pc[2] = "done"
    /\ attempts[1] = 1 /\ attempts[2] = 1
    /\ outcome[1].status_code = 200 /\ outcome[2].status_code = 500

\* C18: a buffer is appended to by its own worker only; latencies is written
\* by run_load_test only, which merges a buffer only once its worker has
\* returned; a merged buffer is not written again.
C18_PrivateBuffers ==
    [][/\ \A w \in Workers :
            /\ local_latencies'[w] # local_latencies[w] =>
                  /\ pc[w] = "store_succ" /\ pc'[w] = "sleep"
                  /\ \A v \in Workers \ {w} :
                        local_latencies'[v] = local_latencies[v] /\ pc'[v] = pc[v]
                  /\ latencies' = latencies
            /\ w \in merged => local_latencies'[w] = local_latencies[w]
       /\ latencies' # latencies =>
            /\ dpc = "collect"
            /\ UNCHANGED <<pc, local_latencies>>
            /\ \E w \in Workers \ merged :
                  /\ pc[w] = "done"
                  /\ merged' = merged \cup {w}
                  /\ latencies' = latencies \o local_latencies[w]]_vars

C18_Witness ==
    /\ THREADS = 2
    /\ dpc = "collect"
    /\ merged = {2}
    /\ latencies # <<>>
    /\ pc[1] = "store_succ"

\* C19: after the join latencies has one entry for each request answered
\* with status 200 and none for any other, whatever the counters hold.
C19_OneEntryPerSuccess ==
    Joined /\ merged = Workers =>
        /\ Len(latencies) = SumOver(ok_calls, Workers)
        /\ \A w \in Workers : Len(local_latencies[w]) = ok_calls[w]

C19_Witness ==
    /\ Joined
    /\ THREADS = 2
    /\ successful_requests < Len(latencies)
    /\ outcome[1].status_code = 500 /\ latency[1] > 0
    /\ calls[1] = 2

\* C15: with the clock advancing and every request returning, every worker
\* returns in the end and run_load_test gets to the summary.
C15_Termination ==
    <>(Joined /\ \A w \in Workers : pc[w] = "done")

C15_Witness ==
    /\ dpc = "done"
    /\ THREADS = 2
    /\ \A w \in Workers : pc[w] = "done" /\ calls[w] > 0
    /\ now > end_time

\* C13: every sample of every generator has 0 <= cpu <= 100 and rps >= 0.
C13_SampleRanges ==
    sample # NoSample =>
        /\ 0 <= sample.cpu /\ sample.cpu <= 100
        /\ sample.rps >= 0

\* A sample of generate_metric whose anomalous draw was negative and clamped.
C13_Witness ==
    /\ sample.device_id = 100
    /\ sample.rps = 0
    /\ sample.cpu = 100

\* C14: each of two concurrent invocations has its own counters and
\* latencies: no step of one changes those of the other, and each reports
\* what its own worker did (one worker each, so nothing is lost within a run).
C14_RunsIsolated ==
    [][/\ run2' # run2 =>
            UNCHANGED <<cntvars, latencies, local_latencies, report>>
       /\ cntvars' # cntvars \/ latencies' # latencies \/ dpc' # dpc => run2' = run2
       /\ dpc' \in {"analytics", "done"} =>
            /\ report'.total = <<calls'[1]>>
            /\ report'.successful = <<ok_calls'[1]>>
            /\ report'.failed = <<calls'[1] - ok_calls'[1]>>
            /\ latencies' = local_latencies'[1]
            /\ Len(latencies') = ok_calls'[1]
       /\ run2'.dpc = "done" =>
            /\ run2'.report = <<run2'.calls, run2'.ok_calls,
                                run2'.calls - run2'.ok_calls>>
            /\ run2'.latencies = run2'.local_latencies
            /\ Len(run2'.latencies) = run2'.ok_calls]_vars

C14_Witness ==
    /\ dpc = "done"
    /\ run2.dpc = "done"
    /\ report.total = <<1>> /\ report.successful = <<1>>
    /\ run2.report = <<1, 0, 1>>

====
